---- MODULE Spec2Model ----
(***************************************************************************)
(* A model of biov's GFF3 layer: the attribute codec (quote / unquote,     *)
(* the ';' and '=' splitting), the readers io.gff.read_gff3 and            *)
(* gff.read_gff3, the explode of attributes into columns, the writer       *)
(* io.gff.to_gff3, the collections derived between a read and a write,     *)
(* and the rsync fallback of executables._blat.blat.                       *)
(*                                                                         *)
(* Text is a sequence of character codes (Python str), so that the codec   *)
(* is computed character by character as the code computes it.  A table    *)
(* cell is a record [t, n, s]: NA (pandas NaN / pd.NA), an integer or a    *)
(* string.  A table is [columns, data] with one sequence of cells per row. *)
(***************************************************************************)
EXTENDS Integers, Sequences, FiniteSets, TLC

VARIABLES
    file,        \* the on-disk GFF3 input: a sequence of lines of 9 text fields
    call,        \* the arguments of the reader call (names, explode, kwargs, locator)
    cache_http,  \* settings.cache_http
    loc,         \* the reader's local filepath_or_buffer / input_file
    parse,       \* what pd.read_table was called with, if it was
    df,          \* the collection the reader returned
    wsel,        \* the attributes argument of the to_gff3 call
    out,         \* the text to_gff3 returned
    err,         \* the exception the last call raised
    pc,          \* the caller's position
    arg,         \* codec runs: the input of the function under check
    op,          \* codec runs: the function applied last
    ret,         \* codec runs: what it returned
    query,            \* blat: the query argument, a str or a list
    rsync_supported,  \* blat: _RSYNC_SUPPORTED of the platform
    blat_exec,        \* blat: what shutil.which found last
    frames,           \* blat: the calls of blat that have not returned
    rsync_runs,       \* blat: the rsync downloads run so far
    blat_err,         \* blat: the exception raised
    blat_pc           \* blat: the position in the innermost call

vars ==
    <<file, call, cache_http, loc, parse, df, wsel, out, err, pc, arg, op, ret,
      query, rsync_supported, blat_exec, frames, rsync_runs, blat_err, blat_pc>>

mainVars == <<file, call, cache_http, loc, parse, df, wsel, out, err, pc>>

codecVars == <<arg, op, ret>>

blatVars == <<query, rsync_supported, blat_exec, frames, rsync_runs, blat_err, blat_pc>>

(***************************************************************************)
(* Bounds                                                                  *)
(***************************************************************************)
MaxRows == 2

MaxPairs == 2

MaxLen == 2

(***************************************************************************)
(* Characters                                                              *)
(***************************************************************************)
SEMI == 59

EQUALS == 61

AMP == 38

COMMA == 44

DEL == 127

PCT == 37

CTRL_STOP == 31

(***************************************************************************)
(* Python str helpers                                                      *)
(***************************************************************************)
RECURSIVE Flatten(_)
\* "".join(parts)
Flatten(parts) ==
    IF parts = <<>> THEN <<>> ELSE Head(parts) \o Flatten(Tail(parts))

RECURSIVE Join(_, _)
\* sep.join(parts)
Join(parts, sep) ==
    IF parts = <<>> THEN <<>>
    ELSE IF Len(parts) = 1 THEN parts[1]
    ELSE parts[1] \o <<sep>> \o Join(Tail(parts), sep)

\* index of the first occurrence of character c in s, 0 when there is none
Find(s, c) ==
    IF \E i \in 1..Len(s) : s[i] = c
    THEN CHOOSE i \in 1..Len(s) : s[i] = c /\ \A j \in 1..(i - 1) : s[j] # c
    ELSE 0

RECURSIVE Split(_, _)
\* s.split(c): always at least one piece
Split(s, c) ==
    LET i == Find(s, c) IN
    IF i = 0 THEN <<s>>
    ELSE <<SubSeq(s, 1, i - 1)>> \o Split(SubSeq(s, i + 1, Len(s)), c)

\* s.split(c, maxsplit=1): one piece, or two cut at the first c
SplitFirst(s, c) ==
    LET i == Find(s, c) IN
    IF i = 0 THEN <<s>>
    ELSE <<SubSeq(s, 1, i - 1), SubSeq(s, i + 1, Len(s))>>

\* x in xs, for a Python list
In(x, xs) == \E i \in 1..Len(xs) : xs[i] = x

RECURSIVE Filter(_, _)
\* [x for x in xs if keep[x]], keep a set
Filter(xs, keep) ==
    IF xs = <<>> THEN <<>>
    ELSE (IF Head(xs) \in keep THEN <<Head(xs)>> ELSE <<>>) \o Filter(Tail(xs), keep)

Range(xs) == {xs[i] : i \in 1..Len(xs)}

\* every text over alphabet A of at most n characters
TextsUpTo(A, n) == UNION {[1..k -> A] : k \in 0..n}

\* every non-empty list of at most n elements of S
ListsUpTo(S, n) == UNION {[1..k -> S] : k \in 1..n}

\* one lowercase hexadecimal digit, as format(i, "x") writes it
HexDigitLower(n) == IF n < 10 THEN 48 + n ELSE 87 + n

RECURSIVE HexLower(_)
\* f"{i:x}": no padding, lowercase
HexLower(i) ==
    IF i < 16 THEN <<HexDigitLower(i)>>
    ELSE HexLower(i \div 16) \o <<HexDigitLower(i % 16)>>

\* str.upper() on ASCII text
Upper(s) == [i \in 1..Len(s) |-> IF s[i] \in 97..122 THEN s[i] - 32 ELSE s[i]]

(***************************************************************************)
(* quote: io/gff.py and its copy in gff.py                                 *)
(***************************************************************************)
\* the translation table of io.gff.quote: the replacement of one character
quote_table(c) ==
    IF c = SEMI THEN <<PCT, 51, 66>>
    ELSE IF c = EQUALS THEN <<PCT, 51, 68>>
    ELSE IF c = AMP THEN <<PCT, 50, 54>>
    ELSE IF c = COMMA THEN <<PCT, 50, 67>>
    ELSE IF c = DEL THEN <<PCT, 55, 70>>
    ELSE IF c \in 0..(CTRL_STOP - 1) THEN Upper(<<PCT>> \o HexLower(c))
    ELSE <<c>>

quote(s) == Flatten([i \in 1..Len(s) |-> quote_table(s[i])])

\* the translation table of gff.quote
gff_quote_table(c) ==
    IF c = SEMI THEN <<PCT, 51, 66>>
    ELSE IF c = EQUALS THEN <<PCT, 51, 68>>
    ELSE IF c = AMP THEN <<PCT, 50, 54>>
    ELSE IF c = COMMA THEN <<PCT, 50, 67>>
    ELSE IF c = DEL THEN <<PCT, 55, 70>>
    ELSE IF c \in 0..(CTRL_STOP - 1) THEN Upper(<<PCT>> \o HexLower(c))
    ELSE <<c>>

gff_quote(s) == Flatten([i \in 1..Len(s) |-> gff_quote_table(s[i])])

(***************************************************************************)
(* urllib.parse.unquote, as both decoders call it                          *)
(***************************************************************************)
IsHex(c) == c \in 48..57 \/ c \in 65..70 \/ c \in 97..102

HexValue(c) ==
    IF c \in 48..57 THEN c - 48
    ELSE IF c \in 65..70 THEN c - 55
    ELSE c - 87

RECURSIVE unquote_to_bytes(_)
\* every '%' followed by two hexadecimal digits (either case) becomes the byte;
\* any other '%' stays
unquote_to_bytes(s) ==
    IF s = <<>> THEN <<>>
    ELSE IF s[1] = PCT /\ Len(s) >= 3 /\ IsHex(s[2]) /\ IsHex(s[3])
    THEN <<16 * HexValue(s[2]) + HexValue(s[3])>> \o unquote_to_bytes(SubSeq(s, 4, Len(s)))
    ELSE <<s[1]>> \o unquote_to_bytes(Tail(s))

\* unquote(s) = unquote_to_bytes(s).decode("utf-8", "replace") for ASCII s.  The
\* inputs of this model never put a UTF-8 lead byte before a continuation byte,
\* so every byte above 0x7F is replaced on its own by U+FFFD.
decode_replace(b) == [i \in 1..Len(b) |-> IF b[i] < 128 THEN b[i] ELSE 65533]

unquote(s) == decode_replace(unquote_to_bytes(s))

(***************************************************************************)
(* Cells, dicts and tables                                                 *)
(***************************************************************************)
NA == [t |-> "na", n |-> 0, s |-> <<>>]

IntCell(i) == [t |-> "int", n |-> i, s |-> <<>>]

StrCell(x) == [t |-> "str", n |-> 0, s |-> x]

\* pd.isna(v)
isna(v) == v.t = "na"

\* isinstance(v, str)
isstr(v) == v.t = "str"

RECURSIVE FormatInt(_)
\* str(i) for i >= 0: decimal digits
FormatInt(i) ==
    IF i < 10 THEN <<48 + i>> ELSE FormatInt(i \div 10) \o <<48 + (i % 10)>>

RECURSIVE ParseInt(_)
\* the table parser's reading of a field of decimal digits
ParseInt(s) ==
    IF s = <<>> THEN 0
    ELSE 10 * ParseInt(SubSeq(s, 1, Len(s) - 1)) + (s[Len(s)] - 48)

IsDigits(s) == s # <<>> /\ \A i \in 1..Len(s) : s[i] \in 48..57

\* str(v) of a cell that is not NA
py_str(v) == IF v.t = "int" THEN FormatInt(v.n) ELSE v.s

\* A Python dict: its items in insertion order, the keys distinct.
DictKeys(d) == [i \in 1..Len(d) |-> d[i][1]]

DictHas(d, k) == \E i \in 1..Len(d) : d[i][1] = k

DictGet(d, k) == d[CHOOSE i \in 1..Len(d) : d[i][1] = k][2]

\* d[k] = v: a key already there keeps its place
DictSet(d, k, v) ==
    IF DictHas(d, k)
    THEN [i \in 1..Len(d) |-> IF d[i][1] = k THEN <<k, v>> ELSE d[i]]
    ELSE Append(d, <<k, v>>)

RECURSIVE DictFrom(_, _)
\* dict(items), items a list of 2-element lists
DictFrom(items, acc) ==
    IF items = <<>> THEN acc
    ELSE DictFrom(Tail(items), DictSet(acc, Head(items)[1], Head(items)[2]))

RECURSIVE UnionKeys(_, _)
\* the columns pd.json_normalize gives a list of flat dicts: every key, in the
\* order it is first seen
UnionKeys(dicts, acc) ==
    IF dicts = <<>> THEN acc
    ELSE LET ks == DictKeys(Head(dicts))
             new == [i \in 1..Len(ks) |-> ks[i]]
             fresh == Filter(new, Range(new) \ Range(acc))
         IN UnionKeys(Tail(dicts), acc \o fresh)

\* pd.json_normalize(dicts): one row per dict, NaN where a dict lacks the key
normalize(dicts, cols) ==
    [columns |-> cols,
     data |-> [r \in 1..Len(dicts) |->
                 [c \in 1..Len(cols) |->
                    IF DictHas(dicts[r], cols[c]) THEN DictGet(dicts[r], cols[c]) ELSE NA]]]

json_normalize(dicts) == normalize(dicts, UnionKeys(dicts, <<>>))

ColIndex(t, name) == CHOOSE c \in 1..Len(t.columns) : t.columns[c] = name

HasCol(t, name) == In(name, t.columns)

\* t[cols]: the named columns, in the order asked for (all of them present)
SelectCols(t, cols) ==
    [columns |-> cols,
     data |-> [r \in 1..Len(t.data) |->
                 [c \in 1..Len(cols) |-> t.data[r][ColIndex(t, cols[c])]]]]

\* t[name] = values: replaces the column, or appends it
SetCol(t, name, values) ==
    IF HasCol(t, name)
    THEN [columns |-> t.columns,
          data |-> [r \in 1..Len(t.data) |->
                      [t.data[r] EXCEPT ![ColIndex(t, name)] = values[r]]]]
    ELSE [columns |-> Append(t.columns, name),
          data |-> [r \in 1..Len(t.data) |-> Append(t.data[r], values[r])]]

\* pd.concat([a, b], axis=1) of two tables with the same rows
ConcatCols(a, b) ==
    [columns |-> a.columns \o b.columns,
     data |-> [r \in 1..Len(a.data) |-> a.data[r] \o b.data[r]]]

EmptyTable == [columns |-> <<>>, data |-> <<>>]

(***************************************************************************)
(* Names                                                                   *)
(***************************************************************************)
\* "seqid", "source", "type", "start", "end", "score", "strand", "phase",
\* "attributes" (io/gff.py)
GFF_COLUMNS ==
    <<
        <<115, 101, 113, 105, 100>>,
        <<115, 111, 117, 114, 99, 101>>,
        <<116, 121, 112, 101>>,
        <<115, 116, 97, 114, 116>>,
        <<101, 110, 100>>,
        <<115, 99, 111, 114, 101>>,
        <<115, 116, 114, 97, 110, 100>>,
        <<112, 104, 97, 115, 101>>,
        <<97, 116, 116, 114, 105, 98, 117, 116, 101, 115>>
    >>

\* the same nine names (gff.py)
GFF3_COLUMNS ==
    <<
        <<115, 101, 113, 105, 100>>,
        <<115, 111, 117, 114, 99, 101>>,
        <<116, 121, 112, 101>>,
        <<115, 116, 97, 114, 116>>,
        <<101, 110, 100>>,
        <<115, 99, 111, 114, 101>>,
        <<115, 116, 114, 97, 110, 100>>,
        <<112, 104, 97, 115, 101>>,
        <<97, 116, 116, 114, 105, 98, 117, 116, 101, 115>>
    >>

\* "ID", "Name", "Alias", "Parent", "Target", "Gap", "Derives_from", "Note",
\* "Dbxref", "Ontology_term", "Is_circular"
GFF3_ATTRIBUTES ==
    <<
        <<73, 68>>,
        <<78, 97, 109, 101>>,
        <<65, 108, 105, 97, 115>>,
        <<80, 97, 114, 101, 110, 116>>,
        <<84, 97, 114, 103, 101, 116>>,
        <<71, 97, 112>>,
        <<68, 101, 114, 105, 118, 101, 115, 95, 102, 114, 111, 109>>,
        <<78, 111, 116, 101>>,
        <<68, 98, 120, 114, 101, 102>>,
        <<79, 110, 116, 111, 108, 111, 103, 121, 95, 116, 101, 114, 109>>,
        <<73, 115, 95, 99, 105, 114, 99, 117, 108, 97, 114>>
    >>

\* the column the reader's  raw_df["start"] -= 1  names
START == <<115, 116, 97, 114, 116>>

\* the column the writer's  gff_df["attributes"] = ...  names
ATTRIBUTES == <<97, 116, 116, 114, 105, 98, 117, 116, 101, 115>>

(***************************************************************************)
(* The decoders                                                            *)
(***************************************************************************)
\* [unquote(i) for i in kv.split("=", maxsplit=1)] for kv in attrs.split(";")
io_items(attrs) ==
    LET kvs == Split(attrs, SEMI) IN
    [i \in 1..Len(kvs) |->
        LET parts == SplitFirst(kvs[i], EQUALS) IN
        [j \in 1..Len(parts) |-> unquote(parts[j])]]

\* dict(items) raises ValueError unless every item has exactly two elements
dict_ok(items) == \A i \in 1..Len(items) : Len(items[i]) = 2

\* dict(items) with the items that are no pair dropped
dict_of_lenient(items) ==
    [err |-> "none",
     d |-> DictFrom([i \in 1..Len(Filter(items, {x \in Range(items) : Len(x) = 2})) |->
                       <<Filter(items, {x \in Range(items) : Len(x) = 2})[i][1],
                         StrCell(Filter(items, {x \in Range(items) : Len(x) = 2})[i][2])>>], <<>>)]

\* dict(items): the dict of tag and value, or the ValueError
dict_of(items) ==
    IF dict_ok(items)
    THEN [err |-> "none",
          d |-> DictFrom([i \in 1..Len(items) |-> <<items[i][1], StrCell(items[i][2])>>], <<>>)]
    ELSE [err |-> "ValueError", d |-> <<>>]

\* the lambda io.gff.read_gff3.explode applies to one cell of the attributes
\* column: the dict, or the error dict() raises
io_decode(cell) ==
    IF isstr(cell) THEN dict_of(io_items(cell.s)) ELSE [err |-> "none", d |-> <<>>]

\* kv.split("=") for kv in attributes.split(";")
gff_items(attrs) ==
    LET kvs == Split(attrs, SEMI) IN
    [i \in 1..Len(kvs) |-> Split(kvs[i], EQUALS)]

\* the lambda of GFFDataFrame.attributes on one cell; a cell that is no str has
\* no split method
gff_dict(cell) ==
    IF isstr(cell) THEN dict_of(gff_items(cell.s)) ELSE [err |-> "AttributeError", d |-> <<>>]

\* .map(lambda v: unquote(v) if isinstance(v, str) else v) on one value
gff_map(v) == IF isstr(v) THEN StrCell(unquote(v.s)) ELSE v

\* the decoder of GFFDataFrame.attributes on one cell: the dict, its values
\* passed through the map
map_values(r) ==
    [err |-> r.err, d |-> [i \in 1..Len(r.d) |-> <<r.d[i][1], gff_map(r.d[i][2])>>]]

gff_decode(cell) == map_values(gff_dict(cell))

\* Series.apply(f): the error of the first row that raises, "none" otherwise
FirstError(results) ==
    IF \A i \in 1..Len(results) : results[i].err = "none" THEN "none"
    ELSE results[CHOOSE i \in 1..Len(results) :
            results[i].err # "none" /\ \A j \in 1..(i - 1) : results[j].err = "none"].err

\* the filter of explode keeping every discovered column
explode_keep_all(c, names) == TRUE

\* the filter of explode: a discovered column is kept
explode_keep(c, names) == ~In(c, names)

\* io.gff.read_gff3.explode(attributes): the table of the decoded attributes,
\* the columns named like one of names left out
\* attr_df[[c for c in attr_df.columns if c not in names]]
explode_filter(attr_df, names) ==
    SelectCols(attr_df,
               Filter(attr_df.columns, {c \in Range(attr_df.columns) : explode_keep(c, names)}))

\* the table of the decoded rows, or the error of the first row that raised
explode_rows(rs, names) ==
    IF FirstError(rs) # "none" THEN [err |-> FirstError(rs), table |-> EmptyTable]
    ELSE [err |-> "none",
          table |-> explode_filter(json_normalize([i \in 1..Len(rs) |-> rs[i].d]), names)]

explode(attributes, names) ==
    explode_rows([i \in 1..Len(attributes) |-> io_decode(attributes[i])], names)

\* order.get(c, len(c)), order the index of c in GFF3_ATTRIBUTES
attributes_key(c) ==
    IF In(c, GFF3_ATTRIBUTES)
    THEN (CHOOSE i \in 1..Len(GFF3_ATTRIBUTES) : GFF3_ATTRIBUTES[i] = c) - 1
    ELSE Len(c)

RECURSIVE InsertByKey(_, _)
InsertByKey(sorted, c) ==
    IF sorted = <<>> THEN <<c>>
    ELSE IF attributes_key(Head(sorted)) <= attributes_key(c)
    THEN <<Head(sorted)>> \o InsertByKey(Tail(sorted), c)
    ELSE <<c>> \o sorted

RECURSIVE SortByKey(_, _)
\* sorted(columns, key=...): stable
SortByKey(cols, acc) ==
    IF cols = <<>> THEN acc ELSE SortByKey(Tail(cols), InsertByKey(acc, Head(cols)))

\* GFFDataFrame.attributes on the attributes column
\* df[columns], columns sorted by the key
attributes_sorted(t) == SelectCols(t, SortByKey(t.columns, <<>>))

attributes_rows(rs) ==
    IF FirstError(rs) # "none" THEN [err |-> FirstError(rs), table |-> EmptyTable]
    ELSE [err |-> "none",
          table |-> attributes_sorted(json_normalize([i \in 1..Len(rs) |-> rs[i].d]))]

gff_attributes(attributes) ==
    attributes_rows([i \in 1..Len(attributes) |-> gff_decode(attributes[i])])

(***************************************************************************)
(* The writer's attribute assembly                                         *)
(***************************************************************************)
\* the pair written without quote
collapse_pair_raw(k, v) == k \o <<EQUALS>> \o py_str(v)

\* the pair to_gff3 writes for one item of a row: f"{quote(k)}={quote(str(v))}"
collapse_pair(k, v) == quote(k) \o <<EQUALS>> \o quote(py_str(v))

\* an item of the row written whatever its value
collapse_keep_all(v) == TRUE

\* an item of the row is written: not pd.isna(v) (every column name is a str)
collapse_keep(v) == ~isna(v)

\* ";".join(... for k, v in r.items() if ... not pd.isna(v)): the attributes
\* field of one row, r the row's dict of the selected columns
collapse_join(kept) ==
    Join([i \in 1..Len(kept) |-> collapse_pair(kept[i][1], kept[i][2])], SEMI)

collapse(r) ==
    collapse_join(Filter(r, {r[i] : i \in {j \in 1..Len(r) : collapse_keep(r[j][2])}}))

\* a locator is a str (its text) or a buffer
Buffer == [str |-> FALSE, text |-> <<>>]

Path(s) == [str |-> TRUE, text |-> s]

\* no reader call
NoCall ==
    [reader |-> "none", has_names |-> FALSE, names |-> <<>>, explode |-> FALSE,
     comment |-> "absent", na_values |-> "absent", locator |-> Buffer]

\* pd.read_table not called
NoParse ==
    [called |-> FALSE, locator |-> Buffer, names |-> <<>>, comment |-> "",
     na_values |-> "", compression |-> ""]

\* no collection
NoTable == [cls |-> "none", columns |-> <<>>, data |-> <<>>, gff_columns |-> <<>>]

\* no text written
NoText == [written |-> FALSE, header |-> <<>>, lines |-> <<>>]

(***************************************************************************)
(* Locators and io._preprocess.preprocessing                               *)
(***************************************************************************)
\* s.startswith(prefix)
StartsWith(s, prefix) ==
    Len(s) >= Len(prefix) /\ SubSeq(s, 1, Len(prefix)) = prefix

\* index of the first occurrence of the text d in s, 0 when there is none
FindText(s, d) ==
    LET hits == {i \in 1..(Len(s) - Len(d) + 1) : SubSeq(s, i, i + Len(d) - 1) = d} IN
    IF hits = {} THEN 0 ELSE CHOOSE i \in hits : \A j \in hits : i <= j

RECURSIVE SplitText(_, _)
\* s.split(d) for a separator d of several characters
SplitText(s, d) ==
    LET i == FindText(s, d) IN
    IF i = 0 THEN <<s>>
    ELSE <<SubSeq(s, 1, i - 1)>> \o SplitText(SubSeq(s, i + Len(d), Len(s)), d)

RECURSIVE JoinText(_, _)
\* d.join(parts)
JoinText(parts, d) ==
    IF parts = <<>> THEN <<>>
    ELSE IF Len(parts) = 1 THEN parts[1]
    ELSE parts[1] \o d \o JoinText(Tail(parts), d)

\* "::"
CHAIN == <<58, 58>>

\* "filecache"
FILECACHE == <<102, 105, 108, 101, 99, 97, 99, 104, 101>>

\* "tar://"
TAR == <<116, 97, 114, 58, 47, 47>>

\* "https://", "http://"
HTTPS == <<104, 116, 116, 112, 115, 58, 47, 47>>

HTTP == <<104, 116, 116, 112, 58, 47, 47>>

\* *protocols, path = filepath_or_buffer.split("::")
protocols_of(s) ==
    LET parts == SplitText(s, CHAIN) IN SubSeq(parts, 1, Len(parts) - 1)

path_of(s) ==
    LET parts == SplitText(s, CHAIN) IN parts[Len(parts)]

\* any([protocol.startswith("tar://") for protocol in protocols])
any_tar(protocols) == \E i \in 1..Len(protocols) : StartsWith(protocols[i], TAR)

\* path.startswith("https://") alone
is_https_only(path) == StartsWith(path, HTTPS)

\* path.startswith(("https://", "http://"))
is_http(path) == StartsWith(path, HTTPS) \/ StartsWith(path, HTTP)

\* io._preprocess.preprocessing: the locator and the compression option it
\* returns ("infer" is the table parser's default, left alone)
\* kwargs["compression"] after the tar check: None, or left to the parser
compression_of(protocols) == IF any_tar(protocols) THEN "None" ELSE "infer"

\* "::".join([*protocols, "filecache", path])
with_filecache(protocols, path) == Path(JoinText(protocols \o <<FILECACHE, path>>, CHAIN))

preprocess_str(locator, protocols, path, cache) ==
    IF /\ cache
       /\ is_http(path)
       /\ (Len(protocols) = 0 \/ FILECACHE # protocols[Len(protocols)])
    THEN [locator |-> with_filecache(protocols, path), compression |-> compression_of(protocols)]
    ELSE [locator |-> locator, compression |-> compression_of(protocols)]

preprocessing(locator, cache) ==
    IF locator.str
    THEN preprocess_str(locator, protocols_of(locator.text), path_of(locator.text), cache)
    ELSE [locator |-> locator, compression |-> "infer"]

\* the rewriting step of gff.read_gff3:
\*   settings.cache_http and path.startswith(...) and len(protocols) == 0
\*   or "filecache" != protocols[-1]
\* protocols[-1] of an empty list raises IndexError
gff_rewrite_str(locator, protocols, path, cache) ==
    IF cache /\ is_http(path) /\ Len(protocols) = 0
    THEN [err |-> "none", locator |-> with_filecache(protocols, path),
          compression |-> compression_of(protocols)]
    ELSE IF Len(protocols) = 0
    THEN [err |-> "IndexError", locator |-> locator, compression |-> compression_of(protocols)]
    ELSE IF FILECACHE # protocols[Len(protocols)]
    THEN [err |-> "none", locator |-> with_filecache(protocols, path),
          compression |-> compression_of(protocols)]
    ELSE [err |-> "none", locator |-> locator, compression |-> compression_of(protocols)]

gff_rewrite(locator, cache) ==
    IF locator.str
    THEN gff_rewrite_str(locator, protocols_of(locator.text), path_of(locator.text), cache)
    ELSE [err |-> "none", locator |-> locator, compression |-> "infer"]

(***************************************************************************)
(* The table parser and writer of pandas, as the readers and to_gff3 use   *)
(* them                                                                    *)
(***************************************************************************)
\* "." : the null sentinel the readers fix, and what to_csv(na_rep=".") writes
DOT == <<46>>

\* a field the parser reads as null: the sentinel, or an empty field
IsNull(field) == field = DOT \/ field = <<>>

\* a column the parser reads as integers: every field is decimal digits
IntColumn(lines, c) == \A r \in 1..Len(lines) : IsDigits(lines[r][c])

\* pd.read_table(lines, names=names, comment="#", na_values="."): one column
\* per name.  A field that is neither null nor in an integer column stays text.
read_table(lines, names) ==
    [columns |-> names,
     data |-> [r \in 1..Len(lines) |->
                 [c \in 1..Len(names) |->
                    IF IsNull(lines[r][c]) THEN NA
                    ELSE IF IntColumn(lines, c) THEN IntCell(ParseInt(lines[r][c]))
                    ELSE StrCell(lines[r][c])]]]

\* one field of to_csv(sep="\t", na_rep=".")
to_csv_field(v) == IF isna(v) THEN DOT ELSE py_str(v)

\* to_csv(sep="\t", na_rep=".", index=False, header=False): the fields of each line
to_csv(t) ==
    [r \in 1..Len(t.data) |-> [c \in 1..Len(t.columns) |-> to_csv_field(t.data[r][c])]]

\* the column of a table, as a list of cells
Column(t, name) == [r \in 1..Len(t.data) |-> t.data[r][ColIndex(t, name)]]

\* t[name] += k
AddTo(v, k) == IF v.t = "int" THEN IntCell(v.n + k) ELSE v

AddToCol(t, name, k) ==
    SetCol(t, name, [r \in 1..Len(t.data) |-> AddTo(t.data[r][ColIndex(t, name)], k)])

(***************************************************************************)
(* io.gff.read_gff3                                                        *)
(***************************************************************************)
\* the refusal of comment alone, na_values let through
io_forbidden_comment_only == {"comment"}

\* for param in ("comment", "na_values"): the options io.gff.read_gff3 refuses
io_forbidden == {"comment", "na_values"}

\* the options a call passes: those of its kwargs that are present
Passed(c) ==
    {k \in {"comment", "na_values"} :
        (k = "comment" /\ c.comment # "absent") \/ (k = "na_values" /\ c.na_values # "absent")}

\* names = kwargs["names"], GFF_COLUMNS when the caller gave none
io_names(c) == IF c.has_names THEN c.names ELSE GFF_COLUMNS

\* pd.concat([raw_df[names[:-1]], explode(raw_df[names[-1]])], axis=1)
io_concat(shifted, names, ex) ==
    IF ex.err # "none" THEN [err |-> ex.err, table |-> EmptyTable]
    ELSE [err |-> "none",
          table |-> ConcatCols(SelectCols(shifted, SubSeq(names, 1, Len(names) - 1)), ex.table)]

io_explode(shifted, names) ==
    io_concat(shifted, names, explode(Column(shifted, names[Len(names)]), names))

\* the table io.gff.read_gff3 builds from what read_table returned:
\* raw_df["start"] -= 1, then the explode if asked for
io_build(raw, names, explode_attributes) ==
    IF explode_attributes THEN io_explode(AddToCol(raw, START, -1), names)
    ELSE [err |-> "none", table |-> AddToCol(raw, START, -1)]

\* bdf = BioDataFrame(raw_df); bdf._gff_columns = names
io_result(names, l, parsed, built) ==
    IF built.err # "none"
    THEN [err |-> built.err, loc |-> l, parse |-> parsed, df |-> NoTable]
    ELSE [err |-> "none", loc |-> l, parse |-> parsed,
          df |-> [cls |-> "BioDataFrame", columns |-> built.table.columns,
                  data |-> built.table.data, gff_columns |-> names]]

\* raw_df["start"] raises KeyError when no column has that name
io_after_parse(c, names, l, parsed, raw) ==
    IF ~HasCol(raw, START)
    THEN [err |-> "KeyError", loc |-> l, parse |-> parsed, df |-> NoTable]
    ELSE io_result(names, l, parsed, io_build(raw, names, c.explode))

\* kwargs["comment"] = "#"; kwargs["na_values"] = "."; pd.read_table(...)
io_parse(lines, c, names, pre) ==
    io_after_parse(c, names, pre.locator,
                   [called |-> TRUE, locator |-> pre.locator, names |-> names,
                    comment |-> "#", na_values |-> ".", compression |-> pre.compression],
                   read_table(lines, names))

\* io.gff.read_gff3(filepath_or_buffer, explode_attributes, **kwargs): the
\* error raised, the locator as last rewritten, the call to read_table, the
\* BioDataFrame returned
read_gff3(lines, c, cache) ==
    IF Passed(c) \cap io_forbidden # {}
    THEN [err |-> "ValueError", loc |-> c.locator, parse |-> NoParse, df |-> NoTable]
    ELSE io_parse(lines, c, io_names(c), preprocessing(c.locator, cache))

(***************************************************************************)
(* gff.read_gff3                                                           *)
(***************************************************************************)
\* the options gff.read_gff3 refuses
gff_forbidden == {"comment", "na_values"}

gff_names(c) == IF c.has_names THEN c.names ELSE GFF3_COLUMNS

\* GFFDataFrame.__init__: every name of GFF3_COLUMNS is a column
gff_init_ok(t) == \A i \in 1..Len(GFF3_COLUMNS) : HasCol(t, GFF3_COLUMNS[i])

\* return GFFDataFrame(pd.read_table(input_file, **kwargs))
gff_construct(l, parsed, raw) ==
    IF ~gff_init_ok(raw)
    THEN [err |-> "AttributeError", loc |-> l, parse |-> parsed, df |-> NoTable]
    ELSE [err |-> "none", loc |-> l, parse |-> parsed,
          df |-> [cls |-> "GFFDataFrame", columns |-> raw.columns, data |-> raw.data,
                  gff_columns |-> <<>>]]

gff_parse(lines, c, names, pre) ==
    IF pre.err # "none"
    THEN [err |-> pre.err, loc |-> c.locator, parse |-> NoParse, df |-> NoTable]
    ELSE gff_construct(pre.locator,
                       [called |-> TRUE, locator |-> pre.locator, names |-> names,
                        comment |-> "#", na_values |-> ".", compression |-> pre.compression],
                       read_table(lines, names))

\* gff.read_gff3(input_file, **kwargs)
gff_read_gff3(lines, c, cache) ==
    IF Passed(c) \cap gff_forbidden # {}
    THEN [err |-> "ValueError", loc |-> c.locator, parse |-> NoParse, df |-> NoTable]
    ELSE gff_parse(lines, c, gff_names(c), gff_rewrite(c.locator, cache))

(***************************************************************************)
(* io.gff.to_gff3                                                          *)
(***************************************************************************)
\* "##gff-version 3"
VERSION_LINE == <<35, 35, 103, 102, 102, 45, 118, 101, 114, 115, 105, 111, 110, 32, 51>>

\* the attributes argument: True, one column name, or a list of column names
SelTrue == [kind |-> "true", cols |-> <<>>]

SelStr(c) == [kind |-> "str", cols |-> <<c>>]

SelList(cs) == [kind |-> "list", cols |-> cs]

NoSel == [kind |-> "none", cols |-> <<>>]

\* defaults with none for score, strand and phase
defaults_strict(c) ==
    IF c = 1 THEN [has |-> TRUE, value |-> StrCell(<<98, 105, 111, 118>>)]
    ELSE IF c = 2 THEN [has |-> TRUE, value |-> StrCell(<<103, 101, 110, 101>>)]
    ELSE [has |-> FALSE, value |-> NA]

\* defaults.get(c), c the position counted from 0: NA stands for pd.NA, "none"
\* for a position with no default
defaults(c) ==
    IF c = 1 THEN [has |-> TRUE, value |-> StrCell(<<98, 105, 111, 118>>)]
    ELSE IF c = 2 THEN [has |-> TRUE, value |-> StrCell(<<103, 101, 110, 101>>)]
    ELSE IF c \in {5, 6, 7} THEN [has |-> TRUE, value |-> NA]
    ELSE [has |-> FALSE, value |-> NA]

\* the columns the attributes argument selects
selected(d, sel) ==
    IF sel.kind = "true"
    THEN Filter(d.columns, Range(d.columns) \ Range(d.gff_columns))
    ELSE sel.cols

RECURSIVE fill_defaults(_, _, _, _)
\* for c in range(8): a positional column the collection lacks gets its default
fill_defaults(t, self_columns, names, c) ==
    IF c > 7 THEN t
    ELSE IF ~In(names[c + 1], self_columns)
    THEN fill_defaults(SetCol(t, names[c + 1], [r \in 1..Len(t.data) |-> defaults(c).value]),
                       self_columns, names, c + 1)
    ELSE fill_defaults(t, self_columns, names, c + 1)

\* self[attributes].to_dict(orient="records")[r]
record_of(d, cols, r) ==
    DictFrom([i \in 1..Len(cols) |-> <<cols[i], d.data[r][ColIndex(d, cols[i])]>>], <<>>)

\* the attributes column to_gff3 assigns
attributes_column(d, attributes) ==
    IF Len(attributes) = 0 THEN [r \in 1..Len(d.data) |-> NA]
    ELSE [r \in 1..Len(d.data) |-> StrCell(collapse(record_of(d, attributes, r)))]

\* the table of a collection
TableOf(d) == [columns |-> d.columns, data |-> d.data]

\* gff_df = self.copy(); gff_df[names[3]] += 1; the defaults;
\* gff_df = gff_df[names[:-1]]
positional(d, names) ==
    SelectCols(fill_defaults(AddToCol(TableOf(d), names[4], 1), d.columns, names, 0),
               SubSeq(names, 1, 8))

\* gff_df["attributes"] = ...; to_csv; the version line
content(d, names, attributes) ==
    [written |-> TRUE, header |-> VERSION_LINE,
     lines |-> to_csv(SetCol(positional(d, names), ATTRIBUTES, attributes_column(d, attributes)))]

to_gff3_checked(d, names, attributes) ==
    IF Len(names) # 9 THEN [err |-> "ValueError", text |-> NoText]
    ELSE IF ~In(names[4], d.columns) THEN [err |-> "KeyError", text |-> NoText]
    ELSE IF \E c \in 0..7 : ~In(names[c + 1], d.columns) /\ ~defaults(c).has
    THEN [err |-> "ValueError", text |-> NoText]
    ELSE IF \E i \in 1..Len(attributes) : ~In(attributes[i], d.columns)
    THEN [err |-> "KeyError", text |-> NoText]
    ELSE [err |-> "none", text |-> content(d, names, attributes)]

\* to_gff3(self, path=None, attributes=sel): the error raised, or the text
\* returned (its version line and the fields of its data lines)
to_gff3(d, sel) == to_gff3_checked(d, d.gff_columns, selected(d, sel))

(***************************************************************************)
(* Inputs of the reader runs                                               *)
(***************************************************************************)
\* the positional text fields of a line other than start and end: line k of a
\* file is a gene without source and score, or an exon with both
\* ("chr1", ".", "gene", ".", "+", ".") / ("chr1", "src", "exon", "0.5", "-", ".")
Line(k, s, e, attrs) ==
    IF k % 2 = 1
    THEN <<<<99, 104, 114, 49>>, DOT, <<103, 101, 110, 101>>, FormatInt(s), FormatInt(e), DOT, <<43>>, DOT, attrs>>
    ELSE <<<<99, 104, 114, 49>>, <<115, 114, 99>>, <<101, 120, 111, 110>>, FormatInt(s), FormatInt(e), <<48, 46, 53>>, <<45>>, DOT, attrs>>

\* on-disk coordinates: 1-based, start <= end
Coords == {1, 10, 100}

CoordPairs == {p \in Coords \X Coords : p[1] <= p[2]}

\* "ID=v;Name=w"
SAMPLE_ATTRS == <<73, 68, 61, 118, 59, 78, 97, 109, 101, 61, 119>>

\* files whose lines differ in their coordinates
CoordFiles ==
    UNION {{[k \in 1..n |-> Line(k, ps[k][1], ps[k][2], SAMPLE_ATTRS)] :
               ps \in [1..n -> CoordPairs]} : n \in 1..MaxRows}

\* "ID=v", and the raw pairs a line may hold beside it: "Name=w", "score=5",
\* "Note=a,b", "x=%20", "y=%3B", "z=a=b", "" (an empty pair), "q" (no '=')
FIRST_PAIR == <<73, 68, 61, 118>>

OtherPairs ==
    {<<78, 97, 109, 101, 61, 119>>, <<115, 99, 111, 114, 101, 61, 53>>, <<78, 111, 116, 101, 61, 97, 44, 98>>, <<120, 61, 37, 50, 48>>, <<121, 61, 37, 51, 66>>, <<122, 61, 97, 61, 98>>, <<>>, <<113>>}

\* the attribute fields built from at most MaxPairs of two raw pairs, and "."
AttrFields(other) ==
    {DOT} \cup {Join(ps, SEMI) : ps \in ListsUpTo({FIRST_PAIR, other}, MaxPairs)}

\* files whose lines differ in their attributes
AttrFilesOf(other) ==
    UNION {{[k \in 1..n |-> Line(k, 100 + k, 200, as[k])] :
               as \in [1..n -> AttrFields(other)]} : n \in 1..MaxRows}

\* the nine names with "score" renamed "sc"
NAMES_SC ==
    [i \in 1..9 |-> IF i = 6 THEN <<115, 99>> ELSE GFF_COLUMNS[i]]

\* the nine names with "start" renamed "begin"
NAMES_BEGIN ==
    [i \in 1..9 |-> IF i = 4 THEN <<98, 101, 103, 105, 110>> ELSE GFF_COLUMNS[i]]

\* a call of io.gff.read_gff3 on a buffer, with no option but names
IoCall(has_names, names, explode_attributes) ==
    [reader |-> "io", has_names |-> has_names, names |-> names,
     explode |-> explode_attributes, comment |-> "absent", na_values |-> "absent",
     locator |-> Buffer]

ParseCalls ==
    {IoCall(FALSE, <<>>, x) : x \in BOOLEAN}
    \cup {IoCall(TRUE, ns, x) : ns \in {NAMES_SC, NAMES_BEGIN}, x \in BOOLEAN}

\* the calls made on the files that differ in their attributes
AttrCalls ==
    {IoCall(FALSE, <<>>, TRUE), IoCall(FALSE, <<>>, FALSE), IoCall(TRUE, NAMES_SC, TRUE)}

\* "f.gff", "http://h/f", "filecache::https://h/f", "tar://a::https://h/f",
\* "tar://a::f.tar"
Locators ==
    {Buffer} \cup
    {Path(s) : s \in {<<102, 46, 103, 102, 102>>,
                     <<104, 116, 116, 112, 58, 47, 47, 104, 47, 102>>,
                     <<102, 105, 108, 101, 99, 97, 99, 104, 101, 58, 58, 104, 116, 116, 112, 115, 58, 47, 47, 104, 47, 102>>,
                     <<116, 97, 114, 58, 47, 47, 97, 58, 58, 104, 116, 116, 112, 115, 58, 47, 47, 104, 47, 102>>,
                     <<116, 97, 114, 58, 47, 47, 97, 58, 58, 102, 46, 116, 97, 114>>}}

\* the calls that differ in their options and locator, of either reader
OptionCalls ==
    {[reader |-> r, has_names |-> FALSE, names |-> <<>>, explode |-> TRUE,
      comment |-> c, na_values |-> n, locator |-> l] :
        r \in {"io", "gff"}, c \in {"absent", "#", "!"}, n \in {"absent", ".", "NA"},
        l \in Locators}

(***************************************************************************)
(* The reader runs                                                         *)
(***************************************************************************)
\* blat not called
NoBlat ==
    /\ query = "none"
    /\ rsync_supported = FALSE
    /\ blat_exec = "None"
    /\ frames = 0
    /\ rsync_runs = 0
    /\ blat_err = "none"
    /\ blat_pc = "none"

NoCodec ==
    /\ arg = [kind |-> "none", val |-> <<>>]
    /\ op = "none"
    /\ ret = <<>>

Init ==
    /\ \/ /\ file \in CoordFiles
          /\ call \in ParseCalls
          /\ cache_http = TRUE
       \/ /\ \E other \in OtherPairs : file \in AttrFilesOf(other)
          /\ call \in AttrCalls
          /\ cache_http = TRUE
       \/ /\ file = <<Line(1, 100, 200, SAMPLE_ATTRS)>>
          /\ call \in OptionCalls
          /\ cache_http \in BOOLEAN
    /\ loc = call.locator
    /\ parse = NoParse
    /\ df = NoTable
    /\ wsel = NoSel
    /\ out = NoText
    /\ err = "none"
    /\ pc = "start"
    /\ NoCodec
    /\ NoBlat

\* the caller calls io.gff.read_gff3
ReadGff3 ==
    /\ pc = "start" /\ call.reader = "io"
    /\ \E r \in {read_gff3(file, call, cache_http)} :
         /\ err' = r.err
         /\ loc' = r.loc
         /\ parse' = r.parse
         /\ df' = r.df
    /\ pc' = "read"
    /\ UNCHANGED <<file, call, cache_http, wsel, out, codecVars, blatVars>>

\* the caller calls gff.read_gff3
GffReadGff3 ==
    /\ pc = "start" /\ call.reader = "gff"
    /\ \E r \in {gff_read_gff3(file, call, cache_http)} :
         /\ err' = r.err
         /\ loc' = r.loc
         /\ parse' = r.parse
         /\ df' = r.df
    /\ pc' = "read"
    /\ UNCHANGED <<file, call, cache_http, wsel, out, codecVars, blatVars>>

\* the attributes arguments a caller passes: the default, or the list of the
\* columns that are not positional
Selections(d) ==
    {SelTrue, SelList(Filter(d.columns, Range(d.columns) \ Range(d.gff_columns)))}

\* the caller calls to_gff3 on the collection it read
ToGff3 ==
    /\ pc = "read" /\ err = "none" /\ df.cls = "BioDataFrame"
    /\ \E sel \in Selections(df) : \E w \in {to_gff3(df, sel)} :
           /\ wsel' = sel
           /\ err' = w.err
           /\ out' = w.text
    /\ pc' = "written"
    /\ UNCHANGED <<file, call, cache_http, loc, parse, df, codecVars, blatVars>>

Next ==
    \/ ReadGff3
    \/ GffReadGff3
    \/ ToGff3

Spec == Init /\ [][Next]_vars

(***************************************************************************)
(* Collections between a read and a write                                  *)
(***************************************************************************)
\* a new BioDataFrame: _gff_columns is the class attribute of GFFMixin until
\* an instance attribute is assigned (no _metadata names it, so the objects
\* the table library derives through _constructor do not inherit it)
BioDataFrame(t) ==
    [cls |-> "BioDataFrame", columns |-> t.columns, data |-> t.data,
     gff_columns |-> GFF_COLUMNS]

\* a collection with its table replaced in place
with_table(d, t) ==
    [cls |-> d.cls, columns |-> t.columns, data |-> t.data, gff_columns |-> d.gff_columns]

\* df.copy()
copy(d) == BioDataFrame(TableOf(d))

\* df.head(n): the first n rows, a derived collection
head(d, n) == BioDataFrame([columns |-> d.columns, data |-> SubSeq(d.data, 1, n)])

\* "hello", "world", "ID"
HELLO == <<104, 101, 108, 108, 111>>

WORLD == <<119, 111, 114, 108, 100>>

ID == <<73, 68>>

\* df[name] = value: the column assigned in place
assign(d, name, value) ==
    with_table(d, SetCol(TableOf(d), name, [r \in 1..Len(d.data) |-> StrCell(value)]))

\* df._gff_columns = names
set_gff_columns(d, names) == [d EXCEPT !.gff_columns = names]

\* the object the statements of to_gff3 write to, were it self
gff_df_object_self == "self"

\* gff_df = self.copy(): the statements that follow write to the copy
gff_df_object == "copy"

RECURSIVE loop_effect(_, _, _, _)
\* for c in range(8): what the loop has assigned when it ends or raises
loop_effect(t, self_columns, names, c) ==
    IF c > 7 THEN t
    ELSE IF In(names[c + 1], self_columns) THEN loop_effect(t, self_columns, names, c + 1)
    ELSE IF defaults(c).has
    THEN loop_effect(SetCol(t, names[c + 1], [r \in 1..Len(t.data) |-> defaults(c).value]),
                     self_columns, names, c + 1)
    ELSE t

\* the table gff_df names when to_gff3 rebinds it on line 168, returns or raises
written_table(d, names) ==
    IF Len(names) # 9 \/ ~In(names[4], d.columns) THEN TableOf(d)
    ELSE loop_effect(AddToCol(TableOf(d), names[4], 1), d.columns, names, 0)

\* self after to_gff3(self, attributes=sel)
to_gff3_self(d, object) ==
    IF object = "copy" THEN d ELSE with_table(d, written_table(d, d.gff_columns))

\* a call of the constructor on data with the given columns
NewCall(cols) ==
    [reader |-> "new", has_names |-> TRUE, names |-> cols, explode |-> FALSE,
     comment |-> "absent", na_values |-> "absent", locator |-> Buffer]

\* the sets of positional columns the data of a constructed collection lacks
DropSets ==
    SUBSET {GFF_COLUMNS[2], GFF_COLUMNS[3], GFF_COLUMNS[6], GFF_COLUMNS[7], GFF_COLUMNS[8]}
    \cup {{GFF_COLUMNS[1]}, {GFF_COLUMNS[4]}, {GFF_COLUMNS[5]}, {GFF_COLUMNS[4], GFF_COLUMNS[2]}}

ConstructCalls ==
    {NewCall(Filter(GFF_COLUMNS, Range(GFF_COLUMNS) \ D)) : D \in DropSets}

\* the reads whose collections are derived from and written
TableCalls ==
    {IoCall(FALSE, <<>>, TRUE), IoCall(FALSE, <<>>, FALSE), IoCall(TRUE, NAMES_SC, TRUE)}

\* "ID=v;Note=a,b", "Name=w", ".": the attributes fields of the lines
TableAttrs == {<<73, 68, 61, 118, 59, 78, 111, 116, 101, 61, 97, 44, 98>>, <<78, 97, 109, 101, 61, 119>>, DOT}

\* the files of n lines
TableFilesOf(n) ==
    {[k \in 1..n |-> Line(k, 100 + k, 200, as[k])] : as \in [1..n -> TableAttrs]}

InitTable ==
    /\ \E n \in 1..MaxRows : file \in TableFilesOf(n)
    /\ call \in TableCalls \cup ConstructCalls
    /\ cache_http = TRUE
    /\ loc = call.locator
    /\ parse = NoParse
    /\ df = NoTable
    /\ wsel = NoSel
    /\ out = NoText
    /\ err = "none"
    /\ pc = "start"
    /\ NoCodec
    /\ NoBlat

\* the caller builds BioDataFrame(data) from the columns of its data
Construct ==
    /\ pc = "start" /\ call.reader = "new"
    /\ df' = BioDataFrame(SelectCols(AddToCol(read_table(file, GFF_COLUMNS), START, -1),
                                     call.names))
    /\ pc' = "read"
    /\ UNCHANGED <<file, call, cache_http, loc, parse, wsel, out, err, codecVars, blatVars>>

Readable == pc = "read" /\ err = "none" /\ df.cls = "BioDataFrame"

\* df = df.copy()
Copy ==
    /\ Readable
    /\ df' = copy(df)
    /\ UNCHANGED <<file, call, cache_http, loc, parse, wsel, out, err, pc, codecVars, blatVars>>

\* df = df.head(n)
RowFilter ==
    /\ Readable
    /\ \E n \in 1..(Len(df.data) - 1) : df' = head(df, n)
    /\ UNCHANGED <<file, call, cache_http, loc, parse, wsel, out, err, pc, codecVars, blatVars>>

\* df["hello"] = "world"
Assign ==
    /\ Readable
    /\ df' = assign(df, HELLO, WORLD)
    /\ UNCHANGED <<file, call, cache_http, loc, parse, wsel, out, err, pc, codecVars, blatVars>>

\* df._gff_columns = GFF_COLUMNS[:8] on a constructed collection
SetGffColumns ==
    /\ Readable /\ call.reader = "new"
    /\ df' = set_gff_columns(df, SubSeq(GFF_COLUMNS, 1, 8))
    /\ UNCHANGED <<file, call, cache_http, loc, parse, wsel, out, err, pc, codecVars, blatVars>>

\* the attributes arguments of the writes: the default, one column, a list in
\* an order of the caller's, the empty list
WriteSelections == {SelTrue, SelStr(HELLO), SelList(<<HELLO, ID>>), SelList(<<>>)}

\* the caller calls to_gff3, a first time or again
Write ==
    /\ Readable \/ (pc = "written" /\ df.cls = "BioDataFrame")
    /\ \E sel \in WriteSelections : \E w \in {to_gff3(df, sel)} :
           /\ wsel' = sel
           /\ err' = w.err
           /\ out' = w.text
    /\ df' = to_gff3_self(df, gff_df_object)
    /\ pc' = "written"
    /\ UNCHANGED <<file, call, cache_http, loc, parse, codecVars, blatVars>>

NextTable ==
    \/ ReadGff3
    \/ Construct
    \/ Copy
    \/ RowFilter
    \/ Assign
    \/ SetGffColumns
    \/ Write

SpecTable == InitTable /\ [][NextTable]_vars

(***************************************************************************)
(* Claims about the readers and the writer, checked under Spec             *)
(***************************************************************************)
\* the characters the specification reserves: ; = & , DEL and 0x00-0x1F
Reserved(c) == c \in {SEMI, EQUALS, AMP, COMMA, DEL} \/ c \in 0..31

HexDigitUpper(n) == IF n < 10 THEN 48 + n ELSE 55 + n

\* '%XX': two uppercase hexadecimal digits equal to the character's code
Escape(c) == <<PCT, HexDigitUpper(c \div 16), HexDigitUpper(c % 16)>>

EscapedText(s) ==
    Flatten([i \in 1..Len(s) |-> IF Reserved(s[i]) THEN Escape(s[i]) ELSE <<s[i]>>])

\* the names the io reader records for the call
CallNames == io_names(call)

\* the cell the text of a positional field is read as, start moved to 0-based
ExpectedCell(lines, r, c) ==
    IF IsNull(lines[r][c]) THEN NA
    ELSE IF c = 4 THEN IntCell(ParseInt(lines[r][c]) - 1)
    ELSE IF c = 5 THEN IntCell(ParseInt(lines[r][c]))
    ELSE StrCell(lines[r][c])

\* the ends of the ';'-separated pieces of a text: 0, the places of its ';',
\* and the place past its last character
Cuts(f) == {0, Len(f) + 1} \cup {i \in 1..Len(f) : f[i] = SEMI}

\* some ';'-separated piece of the text holds no '='
Malformed(f) ==
    \E a, b \in Cuts(f) :
        /\ a < b
        /\ \A i \in (a + 1)..(b - 1) : f[i] # SEMI /\ f[i] # EQUALS

\* the attributes field of a line is text the decoder is given
IsText(f) == ~IsNull(f)

\* every line of the file holds attribute text of well-formed pairs
WellFormedFile == \A r \in 1..Len(file) : IsText(file[r][9]) /\ ~Malformed(file[r][9])

\* C1: read with the default names or with a 9-name list of the caller's,
\* read_gff3 stores start = on-disk start - 1 and end = on-disk end in the
\* fourth and fifth positional columns, and to_gff3 on the unmodified result
\* writes the on-disk start and end back.
C1_CoordinateRoundTrip ==
    (pc # "start" /\ call.reader = "io" /\ Passed(call) = {} /\ Len(CallNames) = 9
        /\ (call.explode => WellFormedFile)) =>
        /\ df.cls = "BioDataFrame"
        /\ \A r \in 1..Len(file) : \A c \in {4, 5} :
              /\ HasCol(df, CallNames[c])
              /\ df.data[r][ColIndex(df, CallNames[c])] = ExpectedCell(file, r, c)
        /\ pc = "written" =>
              /\ err = "none"
              /\ \A r \in 1..Len(file) : \A c \in {4, 5} : out.lines[r][c] = file[r][c]

\* C2: a collection read with explode_attributes=False is written back by
\* to_gff3 with the default attribute selection as the original lines, the
\* attributes field included.
C2_UnexplodedRoundTrip ==
    (pc = "written" /\ call.reader = "io" /\ ~call.explode /\ wsel = SelTrue) =>
        /\ err = "none"
        /\ out.lines = file

\* C3 as stated: reading well-formed text with explode_attributes=True and
\* writing it with the discovered extra columns gives back the original text.
C3_ExplodedRoundTripOriginal ==
    (pc = "written" /\ call.reader = "io" /\ call.explode /\ WellFormedFile) =>
        /\ err = "none"
        /\ out.header = VERSION_LINE
        /\ out.lines = file

\* the decoded tags of one attribute text, in the order written
TagsOf(f) ==
    [i \in 1..Len(Split(f, SEMI)) |-> unquote(SplitFirst(Split(f, SEMI)[i], EQUALS)[1])]

\* the raw tags and values of one attribute text
PartsOf(f) ==
    UNION {Range(SplitFirst(Split(f, SEMI)[i], EQUALS)) : i \in 1..Len(Split(f, SEMI))}

\* the escapes quote writes: %3B %3D %26 %2C %7F and %10 .. %1E
QuoteEscapes ==
    {<<PCT, 51, 66>>, <<PCT, 51, 68>>, <<PCT, 50, 54>>, <<PCT, 50, 67>>, <<PCT, 55, 70>>}
    \cup {<<PCT, 49, x>> : x \in (48..57) \cup (65..69)}

\* a text neither decoding nor encoding changes: no reserved character, and
\* no '%' before two hexadecimal digits but in an escape quote writes
StableText(s) ==
    /\ \A i \in 1..Len(s) : ~Reserved(s[i])
    /\ \A i \in 1..Len(s) :
          (s[i] = PCT /\ i + 2 <= Len(s) /\ IsHex(s[i + 1]) /\ IsHex(s[i + 2]))
              => SubSeq(s, i, i + 2) \in QuoteEscapes

\* the tags of the lines before line r and of line r, as first seen
SeenUpTo(r) ==
    UnionKeys([k \in 1..r |-> [i \in 1..Len(TagsOf(file[k][9])) |-> <<TagsOf(file[k][9])[i], NA>>]],
              <<>>)

\* line r writes its tags in the order the file first shows them
InFirstSeenOrder(r) ==
    TagsOf(file[r][9]) = Filter(SeenUpTo(Len(file)), Range(TagsOf(file[r][9])))

\* line r holds pairs of distinct tags, none named like a recorded column, in
\* first-seen order, every tag and value a stable text
StableLine(r) ==
    /\ IsText(file[r][9]) /\ ~Malformed(file[r][9])
    /\ \A i, j \in 1..Len(TagsOf(file[r][9])) :
          i # j => TagsOf(file[r][9])[i] # TagsOf(file[r][9])[j]
    /\ \A i \in 1..Len(TagsOf(file[r][9])) : ~In(TagsOf(file[r][9])[i], CallNames)
    /\ InFirstSeenOrder(r)
    /\ \A s \in PartsOf(file[r][9]) : StableText(s)

\* C3, amended: the attributes field is written back unchanged for every line
\* whose tags are distinct, are no recorded column names and stand in the
\* order the file first shows them, and whose tags and values hold no
\* reserved character and no percent escape but those quote writes.
C3_ExplodedRoundTrip ==
    (pc = "written" /\ call.reader = "io" /\ call.explode /\ err = "none") =>
        /\ out.header = VERSION_LINE
        /\ Len(out.lines) = Len(file)
        /\ \A r \in 1..Len(file) : StableLine(r) => out.lines[r][9] = file[r][9]

\* two lines, the second with an escaped ';' beside a tag the first lacks,
\* both written back unchanged
C3_Witness ==
    /\ pc = "written" /\ call.reader = "io" /\ call.explode /\ err = "none"
    /\ Len(file) = 2
    /\ file[1][9] = FIRST_PAIR
    /\ file[2][9] = <<73, 68, 61, 118, 59, 121, 61, 37, 51, 66>>
    /\ StableLine(1) /\ StableLine(2)
    /\ out.lines[2][9] = file[2][9]

PositionalFirst ==
    /\ \A i, j \in 1..Len(df.columns) : i # j => df.columns[i] # df.columns[j]
    /\ Len(df.columns) >= 8
    /\ SubSeq(df.columns, 1, 8) = SubSeq(CallNames, 1, 8)
    /\ \A r \in 1..Len(file) : \A c \in 1..8 : df.data[r][c] = ExpectedCell(file, r, c)

Exploded == pc # "start" /\ call.reader = "io" /\ call.explode /\ df.cls = "BioDataFrame"

\* C9 as stated: the column names are unique, the first eight columns are the
\* positional ones with the on-disk values, and no attribute tag named like a
\* canonical GFF3 column adds a column.
C9_PositionalColumnsWinOriginal ==
    Exploded =>
        /\ PositionalFirst
        /\ \A c \in 9..Len(df.columns) : ~In(df.columns[c], GFF_COLUMNS)

\* C9, amended: ... and no attribute tag named like one of the nine recorded
\* column names (the canonical names when the caller gave none) adds a column.
C9_PositionalColumnsWin ==
    Exploded =>
        /\ PositionalFirst
        /\ \A c \in 9..Len(df.columns) : ~In(df.columns[c], CallNames)

\* default names, a line with a 'score' tag: ID is the only attribute column
C9_Witness ==
    /\ Exploded /\ ~call.has_names
    /\ file[1][9] = <<73, 68, 61, 118, 59, 115, 99, 111, 114, 101, 61, 53>>
    /\ Len(file) = 1
    /\ Len(df.columns) = 9
    /\ df.data[1][6] = NA

\* C10: a call of either reader that passes comment or na_values raises
\* ValueError before the locator is rewritten or read_table is called; every
\* call of read_table is made with comment "#" and na_values ".", and a call of
\* io.gff.read_gff3 that passes neither does call it.
C10_FixedReaderOptions ==
    pc # "start" =>
        /\ Passed(call) # {} =>
              /\ pc = "read" /\ err = "ValueError"
              /\ ~parse.called /\ loc = call.locator /\ df = NoTable
        /\ parse.called => parse.comment = "#" /\ parse.na_values = "."
        /\ (Passed(call) = {} /\ call.reader = "io") => parse.called

\* comment="#" passed with a locator the reader would have rewritten
C10_Witness ==
    /\ pc = "read" /\ call.comment = "#" /\ call.na_values = "absent"
    /\ call.locator = Path(<<104, 116, 116, 112, 58, 47, 47, 104, 47, 102>>) /\ cache_http
    /\ err = "ValueError" /\ ~parse.called /\ loc = call.locator

\* the place of the last "::" of a text, 0 when it has none
LastChain(s) ==
    LET hits == {i \in 1..(Len(s) - 1) : s[i] = 58 /\ s[i + 1] = 58} IN
    IF hits = {} THEN 0 ELSE CHOOSE i \in hits : \A j \in hits : j <= i

\* the address of a locator text: what follows its last "::"
Address(s) == IF LastChain(s) = 0 THEN s ELSE SubSeq(s, LastChain(s) + 2, Len(s))

\* the prefixes of a locator text, the "::" after each included
Prefixes(s) == IF LastChain(s) = 0 THEN <<>> ELSE SubSeq(s, 1, LastChain(s) + 1)

Begins(s, p) == Len(s) >= Len(p) /\ \A i \in 1..Len(p) : s[i] = p[i]

Ends(s, p) == Len(s) >= Len(p) /\ \A i \in 1..Len(p) : s[Len(s) - Len(p) + i] = p[i]

\* the innermost prefix of a locator text is "filecache"
InnermostIsCache(s) ==
    \/ Prefixes(s) = <<102, 105, 108, 101, 99, 97, 99, 104, 101, 58, 58>>
    \/ Ends(Prefixes(s), <<58, 58, 102, 105, 108, 101, 99, 97, 99, 104, 101, 58, 58>>)

\* the locator with "filecache" put before the address when caching is on, the
\* address is an http(s) URL and the innermost prefix is not "filecache"
Cached(l, cache) ==
    IF /\ l.str /\ cache
       /\ (Begins(Address(l.text), <<104, 116, 116, 112, 58, 47, 47>>) \/ Begins(Address(l.text), <<104, 116, 116, 112, 115, 58, 47, 47>>))
       /\ ~InnermostIsCache(l.text)
    THEN Path(Prefixes(l.text) \o <<102, 105, 108, 101, 99, 97, 99, 104, 101, 58, 58>> \o Address(l.text))
    ELSE l

\* C14: preprocessing, as io.gff.read_gff3 calls it, returns the string
\* locator with "filecache" inserted before the address exactly when caching
\* is on, the address starts with http:// or https:// and the innermost prefix
\* is absent or not "filecache"; otherwise it returns the locator unchanged,
\* a locator that is no string always, with its options.
C14_CachePrefixInsertion ==
    (pc # "start" /\ call.reader = "io" /\ Passed(call) = {}) =>
        /\ loc = Cached(call.locator, cache_http)
        /\ parse.locator = loc
        /\ ~call.locator.str => (loc = call.locator /\ parse.compression = "infer")

\* "tar://a::https://h/f" with caching on: read as "tar://a::filecache::https://h/f"
C14_Witness ==
    /\ pc = "read" /\ call.reader = "io" /\ cache_http
    /\ call.locator = Path(<<116, 97, 114, 58, 47, 47, 97, 58, 58, 104, 116, 116, 112, 115, 58, 47, 47, 104, 47, 102>>)
    /\ loc = Path(<<116, 97, 114, 58, 47, 47, 97, 58, 58, 102, 105, 108, 101, 99, 97, 99, 104, 101, 58, 58, 104, 116, 116, 112, 115, 58, 47, 47, 104, 47, 102>>)
    /\ parse.called /\ parse.locator = loc

\* C16: gff.read_gff3 inserts "filecache" before the address only when the
\* address is an http(s) URL, caching is on and the innermost prefix is not
\* "filecache"; a plain local path, or an address that is no URL behind other
\* prefixes, reaches the parser unchanged and the rewriting raises nothing.
C16_GffCachePrefixInsertion ==
    (pc # "start" /\ call.reader = "gff" /\ Passed(call) = {} /\ call.locator.str) =>
        /\ err # "IndexError"
        /\ loc = Cached(call.locator, cache_http)
        /\ parse.called /\ parse.locator = loc

(***************************************************************************)
(* Claims about collections and the writer, checked under SpecTable        *)
(***************************************************************************)
\* the positional names on record for the collection
Recorded == df.gff_columns

\* the field written for the cell of row r in the named column
OwnField(name, r) == to_csv_field(df.data[r][ColIndex(df, name)])

\* the columns the attributes argument of the last write names
Chosen ==
    IF wsel.kind = "true"
    THEN Filter(df.columns, {c \in Range(df.columns) : ~In(c, Recorded)})
    ELSE wsel.cols

\* the last write named columns the collection has
ChosenPresent == \A i \in 1..Len(Chosen) : HasCol(df, Chosen[i])

\* C11: with 9 names on record and seqid, start and end in the data, to_gff3
\* succeeds whichever of source, type, score, strand, phase the data lacks,
\* writing "biov", "gene" and "." for the absent ones and the own values of
\* the columns that are present.
C11_WriterDefaults ==
    (pc = "written" /\ Len(Recorded) = 9 /\ ChosenPresent
        /\ \A c \in {1, 4, 5} : HasCol(df, Recorded[c])) =>
        /\ err = "none" /\ out.written /\ out.header = VERSION_LINE
        /\ Len(out.lines) = Len(df.data)
        /\ \A r \in 1..Len(df.data) :
              /\ out.lines[r][1] = OwnField(Recorded[1], r)
              /\ out.lines[r][2] = (IF HasCol(df, Recorded[2]) THEN OwnField(Recorded[2], r)
                                    ELSE <<98, 105, 111, 118>>)
              /\ out.lines[r][3] = (IF HasCol(df, Recorded[3]) THEN OwnField(Recorded[3], r)
                                    ELSE <<103, 101, 110, 101>>)
              /\ out.lines[r][4] = FormatInt(df.data[r][ColIndex(df, Recorded[4])].n + 1)
              /\ out.lines[r][5] = OwnField(Recorded[5], r)
              /\ \A c \in {6, 7, 8} :
                    out.lines[r][c] = (IF HasCol(df, Recorded[c]) THEN OwnField(Recorded[c], r)
                                       ELSE DOT)

\* a collection of seqid, start, end and attributes alone, written with every
\* default
C11_Witness ==
    /\ pc = "written" /\ err = "none" /\ call.reader = "new"
    /\ df.columns = <<GFF_COLUMNS[1], GFF_COLUMNS[4], GFF_COLUMNS[5], GFF_COLUMNS[9]>>
    /\ Recorded = GFF_COLUMNS
    /\ out.lines[1] = <<<<99, 104, 114, 49>>, <<98, 105, 111, 118>>, <<103, 101, 110, 101>>, <<49, 48, 49>>, <<50, 48, 48>>, DOT, DOT, DOT, DOT>>

\* C12: to_gff3 raises ValueError and writes nothing whenever the names on
\* record are not 9 or the data lacks seqid, start or end, the same error for
\* each of the three.
C12_WriterValidationErrors ==
    (pc = "written"
        /\ (Len(Recorded) # 9 \/ \E c \in {1, 4, 5} : ~HasCol(df, Recorded[c]))) =>
        /\ err = "ValueError"
        /\ out = NoText

RECURSIVE PairsOf(_, _)
\* the pairs of row r for the given columns: quote(tag)=quote(str(value)) for
\* each column whose cell is not null, in the order of the columns
PairsOf(cols, r) ==
    IF cols = <<>> THEN <<>>
    ELSE LET v == df.data[r][ColIndex(df, Head(cols))]
         IN (IF v.t = "na" THEN <<>>
             ELSE <<quote(Head(cols)) \o <<EQUALS>> \o quote(py_str(v))>>)
            \o PairsOf(Tail(cols), r)

\* C13 as stated: the attributes field of every row is the pairs of the
\* selected columns, nulls skipped, joined by ';'.
C13_AttributeAssemblyOriginal ==
    (pc = "written" /\ err = "none") =>
        \A r \in 1..Len(df.data) : out.lines[r][9] = Join(PairsOf(Chosen, r), SEMI)

\* C13, amended: ... joined by ';' when the selection names a column at
\* least, and '.' in every row when it names none.
C13_AttributeAssembly ==
    (pc = "written" /\ err = "none") =>
        \A r \in 1..Len(df.data) :
            out.lines[r][9] = (IF Chosen = <<>> THEN DOT ELSE Join(PairsOf(Chosen, r), SEMI))

\* hello="world" assigned to an exploded collection comes last in the field
C13_Witness ==
    /\ pc = "written" /\ err = "none" /\ call.reader = "io" /\ call.explode
    /\ wsel = SelTrue /\ HasCol(df, HELLO)
    /\ file[1][9] = <<73, 68, 61, 118, 59, 78, 111, 116, 101, 61, 97, 44, 98>>
    /\ out.lines[1][9] = <<73, 68, 61, 118, 59, 78, 111, 116, 101, 61, 97, 37, 50, 67, 98, 59, 104, 101, 108, 108, 111, 61, 119, 111, 114, 108, 100>>

\* C15: the names on record for a collection read with 9 names of the
\* caller's are those names, and still are after copy, row filter and column
\* assignment.
C15_PositionalNamesPersist ==
    (pc # "start" /\ call.reader = "io" /\ call.has_names /\ Len(call.names) = 9
        /\ df.cls = "BioDataFrame") =>
        Recorded = call.names

\* C17: a call of to_gff3, raising or not, leaves the columns, the cells and
\* the names on record of the collection as they were, and a second call with
\* the same argument gives what the first gave.
C17_WritingLeavesCollection ==
    [][pc' = "written" =>
         /\ df' = df
         /\ (pc = "written" /\ wsel' = wsel) => (out' = out /\ err' = err)]_vars

\* after a write the start of the collection is still the internal 100 while
\* the text holds 101
C17_Witness ==
    /\ pc = "written" /\ err = "none" /\ call.reader = "io"
    /\ HasCol(df, START)
    /\ df.data[1][ColIndex(df, START)] = IntCell(100)
    /\ out.lines[1][4] = <<49, 48, 49>>

(***************************************************************************)
(* Codec runs: one function of the codec applied to one input              *)
(***************************************************************************)
\* 'x', ';', '%', TAB, 0x1E, 0x1F
QuoteAlphabet == {120, SEMI, PCT, 9, 30, 31}

\* every single character up to DEL, and the short texts over QuoteAlphabet
QuoteInputs == {<<c>> : c \in 0..DEL} \cup TextsUpTo(QuoteAlphabet, MaxLen)

\* "x", "ID", "k=": tags of a mapping
MapTags == {<<120>>, <<73, 68>>, <<107, 61>>}

\* "v", "a,b", ";", TAB, 0x1F, "%41", "": values of a mapping
MapValues == {<<118>>, <<97, 44, 98>>, <<SEMI>>, <<9>>, <<31>>, <<37, 52, 49>>, <<>>}

\* the mappings of n tags: items in order, tags distinct
MapInputs(n) ==
    {m \in [1..n -> MapTags \X MapValues] :
        \A i, j \in 1..Len(m) : i # j => m[i][1] # m[j][1]}

\* "ID=v", "x=a=b", "K%3D=w", "Name=%3B", "Note=a,b", "Alias=": raw pairs
DecodePairs ==
    {<<73, 68, 61, 118>>, <<120, 61, 97, 61, 98>>, <<75, 37, 51, 68, 61, 119>>, <<78, 97, 109, 101, 61, 37, 51, 66>>, <<78, 111, 116, 101, 61, 97, 44, 98>>, <<65, 108, 105, 97, 115, 61>>}

\* the attribute strings of at most MaxPairs raw pairs, and the null cell
DecodeInputs ==
    {NA} \cup {StrCell(Join(ps, SEMI)) : ps \in ListsUpTo(DecodePairs, MaxPairs)}

\* "ID=v", "x=u", "Parent=w": raw pairs of the rows of a column
SeriesPairs == {<<73, 68, 61, 118>>, <<120, 61, 117>>, <<80, 97, 114, 101, 110, 116, 61, 119>>}

SeriesCells ==
    {NA} \cup {StrCell(Join(ps, SEMI)) : ps \in ListsUpTo(SeriesPairs, MaxPairs)}

\* the attributes columns of n rows
SeriesInputs(n) == [1..n -> SeriesCells]









\* no reader call in progress
Idle ==
    /\ file = <<>>
    /\ call = NoCall
    /\ cache_http = TRUE
    /\ loc = Buffer
    /\ parse = NoParse
    /\ df = NoTable
    /\ wsel = NoSel
    /\ out = NoText
    /\ err = "none"
    /\ pc = "idle"

InitCodec ==
    /\ Idle
    /\ NoBlat
    /\ \/ \E s \in QuoteInputs : arg = [kind |-> "str", val |-> s]
       \/ \E n \in 0..MaxPairs : \E m \in MapInputs(n) : arg = [kind |-> "map", val |-> m]
       \/ \E c \in DecodeInputs : arg = [kind |-> "cell", val |-> c]
       \/ \E n \in 1..MaxRows : \E a \in SeriesInputs(n) : arg = [kind |-> "series", val |-> a]
    /\ op = "none"
    /\ ret = <<>>

\* quote(s) of io/gff.py
Quote ==
    /\ op = "none" /\ arg.kind = "str"
    /\ ret' = quote(arg.val)
    /\ op' = "quote"
    /\ UNCHANGED <<arg, mainVars, blatVars>>

\* quote(s) of gff.py
GffQuote ==
    /\ op = "none" /\ arg.kind = "str"
    /\ ret' = gff_quote(arg.val)
    /\ op' = "gff_quote"
    /\ UNCHANGED <<arg, mainVars, blatVars>>

\* the writer's encoding of one mapping of string tags to string values
Encode ==
    /\ op = "none" /\ arg.kind = "map"
    /\ ret' = collapse([i \in 1..Len(arg.val) |-> <<arg.val[i][1], StrCell(arg.val[i][2])>>])
    /\ op' = "encode"
    /\ UNCHANGED <<arg, mainVars, blatVars>>

\* the reader's decoder on what Encode wrote
Decode ==
    /\ op = "encode"
    /\ ret' = io_decode(StrCell(ret))
    /\ op' = "decode"
    /\ UNCHANGED <<arg, mainVars, blatVars>>

\* the decoder of io.gff.read_gff3.explode on one cell
DecodeIo ==
    /\ op = "none" /\ arg.kind = "cell"
    /\ ret' = io_decode(arg.val)
    /\ op' = "io_decode"
    /\ UNCHANGED <<arg, mainVars, blatVars>>

\* the decoder of GFFDataFrame.attributes on one cell
DecodeGff ==
    /\ op = "none" /\ arg.kind = "cell"
    /\ ret' = gff_decode(arg.val)
    /\ op' = "gff_decode"
    /\ UNCHANGED <<arg, mainVars, blatVars>>

\* explode(attributes) with the default names
Explode ==
    /\ op = "none" /\ arg.kind = "series"
    /\ ret' = explode(arg.val, GFF_COLUMNS)
    /\ op' = "explode"
    /\ UNCHANGED <<arg, mainVars, blatVars>>

\* GFFDataFrame.attributes
Attributes ==
    /\ op = "none" /\ arg.kind = "series"
    /\ ret' = gff_attributes(arg.val)
    /\ op' = "attributes"
    /\ UNCHANGED <<arg, mainVars, blatVars>>

NextCodec ==
    \/ Quote
    \/ GffQuote
    \/ Encode
    \/ Decode
    \/ DecodeIo
    \/ DecodeGff
    \/ Explode
    \/ Attributes

SpecCodec == InitCodec /\ [][NextCodec]_vars

(***************************************************************************)
(* Claims about the codec, checked under SpecCodec                         *)
(***************************************************************************)
\* C5: both copies of quote replace every reserved character (; = & , DEL and
\* each control character 0x00-0x1F) by '%XX' with two uppercase hexadecimal
\* digits and leave every other character unchanged.
C5_EscapeSet ==
    op \in {"quote", "gff_quote"} => ret = EscapedText(arg.val)

\* C4: decoding what the writer encoded from a mapping of string tags to string
\* values returns exactly that mapping.
C4_CodecRoundTrip ==
    op = "decode" =>
        /\ ret.err = "none"
        /\ [i \in 1..Len(ret.d) |-> <<ret.d[i][1], ret.d[i][2].s>>] = arg.val

\* the pair the specification's decoder makes of one ';'-separated piece that
\* holds an '=': cut at the first '=', both sides percent-decoded
ClaimPair(piece) ==
    LET i == Find(piece, EQUALS) IN
    <<unquote(SubSeq(piece, 1, i - 1)), StrCell(unquote(SubSeq(piece, i + 1, Len(piece))))>>

\* the mapping the specification's decoder gives one cell: empty for a null cell
ClaimDecode(cell) ==
    IF isstr(cell)
    THEN LET pieces == Split(cell.s, SEMI) IN
         DictFrom([i \in 1..Len(pieces) |-> ClaimPair(pieces[i])], <<>>)
    ELSE <<>>

\* every ';'-separated piece of the cell holds an '='
WellFormedCell(cell) ==
    isstr(cell) => \A i \in 1..Len(Split(cell.s, SEMI)) : Find(Split(cell.s, SEMI)[i], EQUALS) # 0

\* C7: each decoder (explode's and GFFDataFrame.attributes') splits on ';', cuts
\* each pair at the first '=' only, percent-decodes tag and value, and gives a
\* null cell the empty mapping.
C7_DecodeResult ==
    (op \in {"io_decode", "gff_decode"} /\ WellFormedCell(arg.val)) =>
        /\ ret.err = "none"
        /\ ret.d = ClaimDecode(arg.val)

\* the tags of all rows, first-seen order
ClaimTags(attributes) ==
    UnionKeys([i \in 1..Len(attributes) |-> ClaimDecode(attributes[i])], <<>>)

\* the well-known tags first, in their priority order, then the rest as first seen
ClaimColumns(attributes) ==
    LET tags == ClaimTags(attributes) IN
    Filter(GFF3_ATTRIBUTES, Range(tags)) \o Filter(tags, Range(tags) \ Range(GFF3_ATTRIBUTES))

\* C8: the attribute columns are the union of the tags of all rows, well-known
\* tags first in priority order and the others after them as first seen, and a
\* row lacking a tag holds a null there; for explode and for
\* GFFDataFrame.attributes.
C8_ExplodeColumnOrder ==
    (op \in {"explode", "attributes"} /\ ret.err = "none") =>
        /\ ret.table.columns = ClaimColumns(arg.val)
        /\ \A r \in 1..Len(arg.val) : \A c \in 1..Len(ret.table.columns) :
              LET d == ClaimDecode(arg.val[r])
                  tag == ret.table.columns[c]
              IN ret.table.data[r][c] = (IF DictHas(d, tag) THEN DictGet(d, tag) ELSE NA)

(***************************************************************************)
(* executables._blat.blat                                                  *)
(***************************************************************************)
\* the calls of blat the interpreter lets nest (sys.getrecursionlimit(), cut
\* down): one more raises RecursionError
RecursionLimit == 20

InitBlat ==
    /\ Idle
    /\ NoCodec
    /\ query \in {"str", "list"}
    /\ rsync_supported \in BOOLEAN
    /\ blat_exec = "None"
    /\ frames = 0
    /\ rsync_runs = 0
    /\ blat_err = "none"
    /\ blat_pc = "idle"

\* the caller calls blat(database, query): if isinstance(query, str): query = [query]
BlatCall ==
    /\ blat_pc = "idle"
    /\ frames' = 1
    /\ query' = "list"
    /\ blat_pc' = "which"
    /\ UNCHANGED <<rsync_supported, blat_exec, rsync_runs, blat_err, mainVars, codecVars>>

\* where a call goes once blat_exec is known
after_which(found, supported) ==
    IF found # "None" THEN [pc |-> "run", err |-> "none"]
    ELSE IF supported THEN [pc |-> "rsync_which", err |-> "none"]
    ELSE [pc |-> "raised", err |-> "FileNotFoundError"]

\* blat_exec = shutil.which("blat", path=bin_dir), then shutil.which("blat"):
\* the file system answers as it will
Which ==
    /\ blat_pc = "which"
    /\ \E found \in {"bin", "path", "None"} : \E w \in {after_which(found, rsync_supported)} :
           /\ blat_exec' = found
           /\ blat_pc' = w.pc
           /\ blat_err' = w.err
    /\ UNCHANGED <<query, rsync_supported, frames, rsync_runs, mainVars, codecVars>>

\* rsync = shutil.which("rsync"); if rsync is None: raise FileNotFoundError
RsyncWhich ==
    /\ blat_pc = "rsync_which"
    /\ \/ blat_pc' = "rsync_run" /\ blat_err' = blat_err
       \/ blat_pc' = "raised" /\ blat_err' = "FileNotFoundError"
    /\ UNCHANGED <<query, rsync_supported, blat_exec, frames, rsync_runs, mainVars, codecVars>>

\* subprocess.run([rsync, ...], check=True) fails: raise RuntimeError
RsyncFails ==
    /\ blat_pc = "rsync_run"
    /\ rsync_runs' = rsync_runs + 1
    /\ blat_pc' = "raised"
    /\ blat_err' = "RuntimeError"
    /\ UNCHANGED <<query, rsync_supported, blat_exec, frames, mainVars, codecVars>>

\* subprocess.run([rsync, ...], check=True) succeeds:
\* return blat(database, query, **kwargs)
RsyncThenBlat ==
    /\ blat_pc = "rsync_run"
    /\ rsync_runs' = rsync_runs + 1
    /\ IF frames < RecursionLimit
       THEN frames' = frames + 1 /\ blat_pc' = "which" /\ blat_err' = blat_err
       ELSE frames' = frames /\ blat_pc' = "raised" /\ blat_err' = "RecursionError"
    /\ UNCHANGED <<query, rsync_supported, blat_exec, mainVars, codecVars>>

\* subprocess.run([blat_exec, ...]); return pd.read_table(f, names=_BLAT_COLUMNS)
RunBlat ==
    /\ blat_pc = "run"
    /\ blat_pc' = "returned"
    /\ UNCHANGED <<query, rsync_supported, blat_exec, frames, rsync_runs, blat_err, mainVars, codecVars>>

NextBlat ==
    \/ BlatCall
    \/ Which
    \/ RsyncWhich
    \/ RsyncFails
    \/ RsyncThenBlat
    \/ RunBlat

\* the interpreter goes on with the call while the call has a next step
SpecBlat == InitBlat /\ [][NextBlat]_vars /\ WF_vars(NextBlat)

(***************************************************************************)
(* Claims about blat, checked under SpecBlat                               *)
(***************************************************************************)
\* C18: whatever the environment answers, a call of blat ends by returning a
\* table or raising FileNotFoundError or RuntimeError (RecursionError is a
\* RuntimeError), and it runs rsync once at most.
C18_BlatTerminates ==
    /\ [](rsync_runs <= 1)
    /\ [](blat_pc = "raised" =>
            blat_err \in {"FileNotFoundError", "RuntimeError", "RecursionError"})
    /\ <>(blat_pc \in {"returned", "raised"})

====
